---- MODULE Spec2Model ----
(***************************************************************************)
(* Model of cmd/tvx/extract.go: the `tvx extract` command, which resolves  *)
(* a message on chain, replays its precursors, executes it under a state   *)
(* retention strategy, checks the receipt and writes a test vector.        *)
(*                                                                         *)
(* doExtract is a sequential program: pc is its position, every external   *)
(* call (chain API, engine, store, file system) is one step whose outcome  *)
(* is chosen by the environment.                                           *)
(***************************************************************************)
EXTENDS Integers, Sequences, FiniteSets, TLC

(* ---------------------------- bounds ----------------------------------- *)
NumSenders == 2
MaxNonce == 1
MaxMsgs == 3
MaxHeight == 3

(* ---------------------------- values ----------------------------------- *)
PrecursorSelectAll == "all"
PrecursorSelectSender == "sender"

\* account actors f0101, f0102, ...
Senders == {100 + i : i \in 1..NumSenders}
Nonces == 0..MaxNonce
Messages == [From : Senders, Nonce : Nonces]
NoMsg == [From |-> 0, Nonce |-> 0]

\* types.Message.Cid(): a content hash, injective on the message's fields.
CidOf(m) == m.From * (MaxNonce + 1) + m.Nonce

\* api.Message as ChainGetParentMessages returns it: the Cid beside the message.
ApiMessage(m) == [Cid |-> CidOf(m), Message |-> m]
ApiMessages == {ApiMessage(m) : m \in Messages}

SeqsUpTo(S, n) == UNION {[1..k -> S] : k \in 0..n}
MsgLists == SeqsUpTo(ApiMessages, MaxMsgs)

\* values the --precursor-select flag can hold: the two known ones and any other string
PrecursorModes == {PrecursorSelectAll, PrecursorSelectSender, "other"}

(* ------------------------ findMsgAndPrecursors ------------------------- *)
\* a faulty switch: the 'sender' case without its test on From
SelectsAllModes(mode, target, other) ==
    mode = PrecursorSelectAll \/ mode = PrecursorSelectSender

\* the switch of the loop body: does this entry join `related`?
Selects(mode, target, other) ==
    \/ mode = PrecursorSelectAll
    \/ mode = PrecursorSelectSender /\ other.Message.From = target.From

\* a faulty return after the loop: found reported as true
ExhaustedFound(acc) == [related |-> acc, found |-> TRUE]

\* the return after the loop: the target was not in msgs
Exhausted(acc) == [related |-> acc, found |-> FALSE]

RECURSIVE ScanFrom(_, _, _, _, _)
ScanFrom(mode, target, list, i, acc) ==
    IF i > Len(list)
    THEN Exhausted(acc)
    ELSE LET other == list[i]
             acc2 == IF Selects(mode, target, other)
                     THEN Append(acc, other.Message)
                     ELSE acc
         IN IF other.Cid = CidOf(target)
            THEN [related |-> acc2, found |-> TRUE]
            ELSE ScanFrom(mode, target, list, i + 1, acc2)

findMsgAndPrecursors(mode, target, list) == ScanFrom(mode, target, list, 1, <<>>)

(* ------------------------------ chain ---------------------------------- *)
\* The node's chain: the heights of the head's chain that hold a tipset (the
\* others are null rounds). A tipset of that chain is named by its height.
Heights == 0..MaxHeight
ChainShapes == {c \in SUBSET Heights : 0 \in c}
NoTs == -1

MaxOf(S) == CHOOSE x \in S : \A y \in S : y <= x
HeadOf(c) == MaxOf(c)

\* ts.Parents(): the key of the tipset's parent (none for genesis)
Parents(c, ts) == IF ts = 0 THEN NoTs ELSE MaxOf({x \in c : x < ts})

\* ts.Height()
Height(ts) == ts

\* ChainGetTipSetByHeight(h, from): looks back from `from` for the tipset at
\* height h; a height above `from` is an error, a null round answers with the
\* first tipset below it.
HeightReachable(h, from) == h <= Height(from)
TipSetByHeight(c, h, from) == MaxOf({x \in c : x <= h /\ x <= from})

(* --------------------------- state roots ------------------------------- *)
\* A state root is content addressed: it is named here by how it was built,
\* the tipset whose parent state it is, the mask applied to it, and the
\* messages applied on top.
NoRoot == [base |-> NoTs, mask |-> <<>>, applied |-> <<>>]
ParentState(ts) == [base |-> ts, mask |-> <<>>, applied |-> <<>>]
ParentBaseFee(ts) == 100 + ts
FilCirculating(ts) == 1000 + ts

Receipts == [ExitCode : 0..1, Return : 0..1, GasUsed : 0..1]

\* driver.ExecuteMessage: deterministic in its parameters
ExecPostroot(pre, m) == [pre EXCEPT !.applied = Append(@, CidOf(m))]
\* the result differs when the sender's state was masked out of the preroot
MaskedOut(pre, a) == pre.mask # <<>> /\ a \notin pre.mask[1]
ExecRet(pre, m) ==
    [ExitCode |-> IF MaskedOut(pre, m.From) THEN 1 ELSE 0,
     Return |-> m.Nonce % 2,
     GasUsed |-> Len(pre.applied) % 2]

\* The messages of the chain. ChainGetParentMessages(execTs.Blocks()[0].Cid())
\* answers with the canonical list of the tipset: here the tipset at height t
\* holds the first t+2 messages, ordered by nonce and then by sender.
RECURSIVE SortedBy(_)
SortedBy(S) ==
    IF S = {} THEN <<>>
    ELSE LET m == CHOOSE x \in S : \A y \in S :
                      <<x.Nonce, x.From>> = <<y.Nonce, y.From>>
                      \/ x.Nonce < y.Nonce
                      \/ (x.Nonce = y.Nonce /\ x.From < y.From)
         IN <<ApiMessage(m)>> \o SortedBy(S \ {m})
ChainMessages == SortedBy(Messages)
Min(a, b) == IF a < b THEN a ELSE b
ParentMessages(ts) == SubSeq(ChainMessages, 1, Min(Len(ChainMessages), ts + 2))

(* ------------------------------ state ---------------------------------- *)
VARIABLES
    pc,         \* position in doExtract / resolveFromChain
    failedAt,   \* the position at which the run returned an error or panicked
    err,        \* the error doExtract returned, or the panic
    fsBefore,   \* the output directory and file as they were before the run
    opts,       \* extractOpts
    chain,      \* the node's chain
    fs,         \* the output directory and file
    stdout,     \* what was written to standard output
    msg,        \* the resolved message
    msgInfo,    \* StateSearchMsg's result: <<>> (nil) or <<tipset key>>
    blkHeight,  \* blk.Height of the hint block
    execTs, incTs,
    circSupply, basefee,
    msgs,       \* the canonical list
    related, found, precursors,
    idx,        \* the precursor the replay loop is at
    executed,   \* the engine's invocations so far: preroot and message of each
    root, preroot, postroot,
    applyret,   \* <<>> (nil) or <<receipt>>
    tracing, accessed,
    retain,
    carWriter,
    rec,        \* StateGetReceipt's result: <<>> (nil) or <<receipt>>
    out,        \* the gzip'd CAR buffer
    vector,     \* <<>> or <<the assembled schema.TestVector>>
    calls       \* every external call issued so far, in order

vars == <<pc, failedAt, err, fsBefore, opts, chain, fs, stdout, msg, msgInfo, blkHeight, execTs,
          incTs, circSupply, basefee, msgs, related, found, precursors, root,
          preroot, postroot, applyret, tracing, accessed, retain, carWriter, rec,
          out, vector, calls, idx, executed>>

resolveVars == <<msg, msgInfo, blkHeight, execTs, incTs>>
selectVars == <<msgs, related, found, precursors>>
execVars == <<root, preroot, postroot, applyret, tracing, accessed, retain, carWriter,
             idx, executed>>
outVars == <<fs, stdout, out, vector>>
inputVars == <<opts, chain, fsBefore>>

Terminal == {"Done", "Aborted", "Panicked"}

\* `return err`: the run ends with an error
Abort(e) == pc' = "Aborted" /\ failedAt' = pc /\ err' = e
\* a runtime panic: the process crashes
Panic(e) == pc' = "Panicked" /\ failedAt' = pc /\ err' = e
Goto(l) == pc' = l /\ failedAt' = failedAt /\ err' = err
ErrResolve == "failed to resolve message and tipsets from chain"
ErrParentMessages == "failed to fetch messages in canonical order from inclusion tipset"
ErrNoTracing == "requested 'accessed-cids' state retention, but no tracing blockstore was present"
Call(name) == calls' = Append(calls, name)

(* ------------------------------ inputs --------------------------------- *)
OptsSet ==
    [cid : {"bad", "mcid"}, block : {"", "bad", "bcid"},
     retain : {"accessed-cids", "accessed-actors", "other"},
     precursor : PrecursorModes, file : {"", "dir/out.json"}]

\* the destination before the run: no directory, a directory without the
\* file, or an older file
FsStates == {[dir |-> FALSE, file |-> "absent"], [dir |-> TRUE, file |-> "absent"],
             [dir |-> TRUE, file |-> "old"]}

InitLocals ==
    /\ failedAt = ""
    /\ err = ""
    /\ fsBefore = fs
    /\ stdout = ""
    /\ msgInfo = <<>>
    /\ blkHeight = NoTs
    /\ execTs = NoTs
    /\ incTs = NoTs
    /\ circSupply = 0
    /\ basefee = 0
    /\ related = <<>>
    /\ found = FALSE
    /\ precursors = <<>>
    /\ root = NoRoot
    /\ preroot = NoRoot
    /\ postroot = NoRoot
    /\ applyret = <<>>
    /\ tracing = FALSE
    /\ accessed = {}
    /\ retain = <<>>
    /\ carWriter = ""
    /\ rec = <<>>
    /\ out = <<>>
    /\ vector = <<>>
    /\ calls = <<>>
    /\ idx = 0
    /\ executed = <<>>

Init ==
    /\ pc = "Decode"
    /\ opts \in OptsSet
    /\ chain \in ChainShapes
    /\ fs \in FsStates
    /\ (opts.file = "" => fs = [dir |-> FALSE, file |-> "absent"])
    /\ msg = NoMsg
    /\ msgs = <<>>
    /\ InitLocals

(* --------------------------- resolveFromChain -------------------------- *)
\* doExtract: cid.Decode(opts.cid)
DecodeCid ==
    /\ pc = "Decode"
    /\ IF opts.cid = "bad" THEN Abort("invalid cid") ELSE Goto("ChainGetMessage")
    /\ UNCHANGED <<inputVars, resolveVars, selectVars, execVars, outVars,
                   circSupply, basefee, rec, calls>>

\* api.ChainGetMessage(ctx, mcid)
ChainGetMessage ==
    /\ pc = "ChainGetMessage"
    /\ Call("ChainGetMessage")
    /\ \/ Abort(ErrResolve) /\ UNCHANGED msg
       \/ /\ \E m \in Messages : msg' = m
          /\ Goto(IF opts.block = "" THEN "StateSearchMsg" ELSE "DecodeBlock")
    /\ UNCHANGED <<inputVars, msgInfo, blkHeight, execTs, incTs, selectVars, execVars,
                   outVars, circSupply, basefee, rec>>

\* api.StateSearchMsg(ctx, mcid), then the log line that reads msgInfo.TipSet
StateSearchMsg ==
    /\ pc = "StateSearchMsg"
    /\ Call("StateSearchMsg")
    /\ \/ Abort(ErrResolve) /\ UNCHANGED msgInfo
       \/ Panic("nil pointer dereference") /\ msgInfo' = <<>>
       \/ /\ \E ts \in chain : msgInfo' = <<ts>>
          /\ Goto("ChainGetTipSet")
    /\ UNCHANGED <<inputVars, msg, blkHeight, execTs, incTs, selectVars, execVars,
                   outVars, circSupply, basefee, rec>>

\* fetchThisAndPrevTipset: api.ChainGetTipSet(ctx, target)
FetchThisTipset ==
    /\ pc = "ChainGetTipSet"
    /\ Call("ChainGetTipSet")
    /\ \/ Abort(ErrResolve) /\ UNCHANGED execTs
       \/ execTs' = msgInfo[1] /\ Goto("ChainGetTipSetParents")
    /\ UNCHANGED <<inputVars, msg, msgInfo, blkHeight, incTs, selectVars, execVars,
                   outVars, circSupply, basefee, rec>>

\* fetchThisAndPrevTipset: api.ChainGetTipSet(ctx, targetTs.Parents())
FetchPrevTipset ==
    /\ pc = "ChainGetTipSetParents"
    /\ Call("ChainGetTipSet")
    /\ \/ Abort(ErrResolve) /\ UNCHANGED incTs
       \/ /\ Parents(chain, execTs) # NoTs
          /\ incTs' = Parents(chain, execTs)
          /\ Goto("StateCirculatingSupply")
    /\ UNCHANGED <<inputVars, msg, msgInfo, blkHeight, execTs, selectVars, execVars,
                   outVars, circSupply, basefee, rec>>

\* cid.Decode(block)
DecodeBlock ==
    /\ pc = "DecodeBlock"
    /\ IF opts.block = "bad" THEN Abort(ErrResolve) ELSE Goto("ChainGetBlock")
    /\ UNCHANGED <<inputVars, resolveVars, selectVars, execVars, outVars,
                   circSupply, basefee, rec, calls>>

\* api.ChainGetBlock(ctx, bcid): the hint block may be at any height, on the
\* head's chain or not
ChainGetBlock ==
    /\ pc = "ChainGetBlock"
    /\ Call("ChainGetBlock")
    /\ \/ Abort(ErrResolve) /\ UNCHANGED blkHeight
       \/ /\ \E h \in Heights : blkHeight' = h
          /\ Goto("GetExecTs")
    /\ UNCHANGED <<inputVars, msg, msgInfo, execTs, incTs, selectVars, execVars,
                   outVars, circSupply, basefee, rec>>

\* api.ChainGetTipSetByHeight(ctx, blk.Height+1, types.EmptyTSK)
GetExecTs ==
    /\ pc = "GetExecTs"
    /\ Call("ChainGetTipSetByHeight")
    /\ \/ Abort(ErrResolve) /\ UNCHANGED execTs
       \/ /\ HeightReachable(blkHeight + 1, HeadOf(chain))
          /\ execTs' = TipSetByHeight(chain, blkHeight + 1, HeadOf(chain))
          /\ Goto("GetIncTs")
    /\ UNCHANGED <<inputVars, msg, msgInfo, blkHeight, incTs, selectVars, execVars,
                   outVars, circSupply, basefee, rec>>

\* api.ChainGetTipSetByHeight(ctx, blk.Height, execTs.Key())
GetIncTs ==
    /\ pc = "GetIncTs"
    /\ Call("ChainGetTipSetByHeight")
    /\ \/ Abort(ErrResolve) /\ UNCHANGED incTs
       \/ /\ HeightReachable(blkHeight, execTs)
          /\ incTs' = TipSetByHeight(chain, blkHeight, execTs)
          /\ Goto("StateCirculatingSupply")
    /\ UNCHANGED <<inputVars, msg, msgInfo, blkHeight, execTs, selectVars, execVars,
                   outVars, circSupply, basefee, rec>>

ResolveNext ==
    \/ DecodeCid
    \/ ChainGetMessage
    \/ StateSearchMsg
    \/ FetchThisTipset
    \/ FetchPrevTipset
    \/ DecodeBlock
    \/ ChainGetBlock
    \/ GetExecTs
    \/ GetIncTs

SpecResolve == Init /\ [][ResolveNext]_vars

(* ----------------------- doExtract after resolution --------------------- *)
\* fapi.StateCirculatingSupply(ctx, incTs.Key())
StateCirculatingSupply ==
    /\ pc = "StateCirculatingSupply"
    /\ Call("StateCirculatingSupply")
    /\ \/ Abort("failed while fetching circulating supply") /\ UNCHANGED circSupply
       \/ circSupply' = FilCirculating(incTs) /\ Goto("ChainGetParentMessages")
    /\ UNCHANGED <<inputVars, resolveVars, selectVars, execVars, outVars, basefee, rec>>

\* fapi.ChainGetParentMessages(ctx, execTs.Blocks()[0].Cid())
ChainGetParentMessages ==
    /\ pc = "ChainGetParentMessages"
    /\ Call("ChainGetParentMessages")
    /\ \/ Abort(ErrParentMessages) /\ UNCHANGED msgs
       \/ msgs' = ParentMessages(execTs) /\ Goto("findMsgAndPrecursors")
    /\ UNCHANGED <<inputVars, resolveVars, related, found, precursors, execVars,
                   outVars, circSupply, basefee, rec>>

\* a faulty caller: the split without the check of found
AfterSelectIgnoringFound(r) ==
    IF Len(r.related) = 0
    THEN Panic("slice bounds out of range") /\ UNCHANGED precursors
    ELSE precursors' = SubSeq(r.related, 1, Len(r.related) - 1) /\ Goto("NewDriver")

\* What doExtract does with the selector's answer: `message not found` when
\* found is false, else the split precursors = related[:len(related)-1], which
\* panics (slice bounds out of range) on an empty slice.
AfterSelect(r) ==
    IF ~r.found
    THEN Abort("message not found") /\ UNCHANGED precursors
    ELSE IF Len(r.related) = 0
         THEN Panic("slice bounds out of range") /\ UNCHANGED precursors
         ELSE precursors' = SubSeq(r.related, 1, Len(r.related) - 1) /\ Goto("NewDriver")

\* findMsgAndPrecursors(opts.precursor, msg, msgs) and the split of its result
FindMsgAndPrecursors ==
    /\ pc = "findMsgAndPrecursors"
    /\ LET r == findMsgAndPrecursors(opts.precursor, msg, msgs)
       IN /\ related' = r.related
          /\ found' = r.found
          /\ AfterSelect(r)
    /\ UNCHANGED <<inputVars, resolveVars, msgs, execVars, outVars, circSupply,
                   basefee, rec, calls>>

\* the stores, the surgeon and the driver; root and basefee of the inclusion tipset
NewDriver ==
    /\ pc = "NewDriver"
    /\ root' = ParentState(incTs)
    /\ basefee' = ParentBaseFee(incTs)
    /\ Goto("ReplayPrecursors")
    /\ UNCHANGED <<inputVars, resolveVars, selectVars, preroot, postroot, applyret,
                   tracing, accessed, retain, carWriter, idx, executed, outVars,
                   circSupply, rec, calls>>

\* conformance.ExecuteMessageParams as doExtract fills it for every invocation
Invocation(pre, m) ==
    [Preroot |-> pre, Epoch |-> Height(execTs), Message |-> m,
     CircSupply |-> circSupply, BaseFee |-> basefee]

\* a faulty loop: the postroot of a precursor is discarded
ExecutePrecursorRootDiscarded ==
    /\ pc = "ReplayPrecursors"
    /\ idx < Len(precursors)
    /\ Call("ExecuteMessage")
    /\ executed' = Append(executed, Invocation(root, precursors[idx + 1]))
    /\ \/ Abort("failed to execute precursor message") /\ UNCHANGED <<root, idx>>
       \/ /\ root' = root
          /\ idx' = idx + 1
          /\ Goto("ReplayPrecursors")
    /\ UNCHANGED <<inputVars, resolveVars, selectVars, preroot, postroot, applyret,
                   tracing, accessed, retain, carWriter, outVars, circSupply, basefee,
                   rec>>

\* one turn of the precursor loop: driver.ExecuteMessage on precursors[idx]
ExecutePrecursor ==
    /\ pc = "ReplayPrecursors"
    /\ idx < Len(precursors)
    /\ Call("ExecuteMessage")
    /\ executed' = Append(executed, Invocation(root, precursors[idx + 1]))
    /\ \/ Abort("failed to execute precursor message") /\ UNCHANGED <<root, idx>>
       \/ /\ root' = ExecPostroot(root, precursors[idx + 1])
          /\ idx' = idx + 1
          /\ Goto("ReplayPrecursors")
    /\ UNCHANGED <<inputVars, resolveVars, selectVars, preroot, postroot, applyret,
                   tracing, accessed, retain, carWriter, outVars, circSupply, basefee,
                   rec>>

\* a faulty switch: the retention strategy is entered while precursors are pending
SelectRetentionEarly ==
    /\ pc = "ReplayPrecursors"
    /\ \/ /\ opts.retain = "accessed-cids"
          /\ \/ Abort(ErrNoTracing) /\ UNCHANGED <<tracing, preroot>>
             \/ tracing' = TRUE /\ preroot' = root /\ Goto("ExecuteTraced")
       \/ /\ opts.retain = "accessed-actors"
          /\ Goto("GetAccessedActors")
          /\ UNCHANGED <<tracing, preroot>>
       \/ /\ opts.retain \notin {"accessed-cids", "accessed-actors"}
          /\ Abort("unknown state retention option")
          /\ UNCHANGED <<tracing, preroot>>
    /\ UNCHANGED <<inputVars, resolveVars, selectVars, root, postroot, applyret,
                   accessed, retain, carWriter, idx, executed, outVars, circSupply,
                   basefee, rec, calls>>

\* a faulty switch: an unknown strategy falls through to the accessed-cids case
SelectRetentionFallsThrough ==
    /\ pc = "ReplayPrecursors"
    /\ idx = Len(precursors)
    /\ \/ /\ opts.retain # "accessed-actors"
          /\ \/ Abort(ErrNoTracing) /\ UNCHANGED <<tracing, preroot>>
             \/ tracing' = TRUE /\ preroot' = root /\ Goto("ExecuteTraced")
       \/ /\ opts.retain = "accessed-actors"
          /\ Goto("GetAccessedActors")
          /\ UNCHANGED <<tracing, preroot>>
    /\ UNCHANGED <<inputVars, resolveVars, selectVars, root, postroot, applyret,
                   accessed, retain, carWriter, idx, executed, outVars, circSupply,
                   basefee, rec, calls>>

\* switch retention: the accessed-cids case up to tbs.StartTracing(), the
\* accessed-actors case up to its first call, or the default case
SelectRetention ==
    /\ pc = "ReplayPrecursors"
    /\ idx = Len(precursors)
    /\ \/ /\ opts.retain = "accessed-cids"
          /\ \/ Abort(ErrNoTracing) /\ UNCHANGED <<tracing, preroot>>
             \/ tracing' = TRUE /\ preroot' = root /\ Goto("ExecuteTraced")
       \/ /\ opts.retain = "accessed-actors"
          /\ Goto("GetAccessedActors")
          /\ UNCHANGED <<tracing, preroot>>
       \/ /\ opts.retain \notin {"accessed-cids", "accessed-actors"}
          /\ Abort("unknown state retention option")
          /\ UNCHANGED <<tracing, preroot>>
    /\ UNCHANGED <<inputVars, resolveVars, selectVars, root, postroot, applyret,
                   accessed, retain, carWriter, idx, executed, outVars, circSupply,
                   basefee, rec, calls>>

\* the entries the store records as read while the target executes
AccessedBy(pre, m) == {[root |-> pre, actor |-> m.From]}

\* a faulty step: the traced set is lost, the archive gets an empty include set
ExecuteTracedNothingCollected ==
    /\ pc = "ExecuteTraced"
    /\ Call("ExecuteMessage")
    /\ executed' = Append(executed, Invocation(preroot, msg))
    /\ \/ /\ Abort("failed to execute message")
          /\ UNCHANGED <<applyret, postroot, tracing, accessed, carWriter>>
       \/ /\ applyret' = <<ExecRet(preroot, msg)>>
          /\ postroot' = ExecPostroot(preroot, msg)
          /\ accessed' = {}
          /\ tracing' = FALSE
          /\ carWriter' = "WriteCARIncluding"
          /\ Goto("StateGetReceipt")
    /\ UNCHANGED <<inputVars, resolveVars, selectVars, root, preroot, retain, idx,
                   outVars, circSupply, basefee, rec>>

\* accessed-cids: driver.ExecuteMessage on the target, then tbs.FinishTracing()
ExecuteTraced ==
    /\ pc = "ExecuteTraced"
    /\ Call("ExecuteMessage")
    /\ executed' = Append(executed, Invocation(preroot, msg))
    /\ \/ /\ Abort("failed to execute message")
          /\ UNCHANGED <<applyret, postroot, tracing, accessed, carWriter>>
       \/ /\ applyret' = <<ExecRet(preroot, msg)>>
          /\ postroot' = ExecPostroot(preroot, msg)
          /\ accessed' = AccessedBy(preroot, msg)
          /\ tracing' = FALSE
          /\ carWriter' = "WriteCARIncluding"
          /\ Goto("StateGetReceipt")
    /\ UNCHANGED <<inputVars, resolveVars, selectVars, root, preroot, retain, idx,
                   outVars, circSupply, basefee, rec>>

InitAddress == 1
RewardAddress == 2
BurntFundsActorAddr == 99

\* what the accessed-actor computation may answer for the message
AccessedActorLists(m) == {<<>>, <<m.From>>}

\* accessed-actors: g.GetAccessedActors(ctx, api, mcid)
GetAccessedActors ==
    /\ pc = "GetAccessedActors"
    /\ Call("GetAccessedActors")
    /\ \/ Abort("failed to calculate accessed actors") /\ UNCHANGED retain
       \/ /\ \E l \in AccessedActorLists(msg) : retain' = l
          /\ Goto("AppendActors")
    /\ UNCHANGED <<inputVars, resolveVars, selectVars, root, preroot, postroot,
                   applyret, tracing, accessed, carWriter, idx, executed, outVars,
                   circSupply, basefee, rec>>

\* retain = append(retain, reward.Address, builtin.BurntFundsActorAddr,
\* init_.Address)
AppendActors ==
    /\ pc = "AppendActors"
    /\ retain' = retain \o <<RewardAddress, BurntFundsActorAddr, InitAddress>>
    /\ Goto("GetMaskedStateTree")
    /\ UNCHANGED <<inputVars, resolveVars, selectVars, root, preroot, postroot,
                   applyret, tracing, accessed, carWriter, idx, executed, outVars,
                   circSupply, basefee, rec, calls>>

Range(q) == {q[i] : i \in 1..Len(q)}

\* a faulty step: the mask is computed but the unmasked root is kept as preroot
GetMaskedStateTreeDropped ==
    /\ pc = "GetMaskedStateTree"
    /\ Call("GetMaskedStateTree")
    /\ \/ Abort("masked state tree error") /\ UNCHANGED preroot
       \/ preroot' = root /\ Goto("ExecuteMasked")
    /\ UNCHANGED <<inputVars, resolveVars, selectVars, root, postroot, applyret,
                   tracing, accessed, retain, carWriter, idx, executed, outVars,
                   circSupply, basefee, rec>>

\* g.GetMaskedStateTree(root, retain)
GetMaskedStateTree ==
    /\ pc = "GetMaskedStateTree"
    /\ Call("GetMaskedStateTree")
    /\ \/ Abort("masked state tree error") /\ UNCHANGED preroot
       \/ preroot' = [root EXCEPT !.mask = <<Range(retain)>>] /\ Goto("ExecuteMasked")
    /\ UNCHANGED <<inputVars, resolveVars, selectVars, root, postroot, applyret,
                   tracing, accessed, retain, carWriter, idx, executed, outVars,
                   circSupply, basefee, rec>>

\* accessed-actors: driver.ExecuteMessage on the target against the masked preroot
ExecuteMasked ==
    /\ pc = "ExecuteMasked"
    /\ Call("ExecuteMessage")
    /\ executed' = Append(executed, Invocation(preroot, msg))
    /\ \/ Abort("failed to execute message") /\ UNCHANGED <<applyret, postroot, carWriter>>
       \/ /\ applyret' = <<ExecRet(preroot, msg)>>
          /\ postroot' = ExecPostroot(preroot, msg)
          /\ carWriter' = "WriteCAR"
          /\ Goto("StateGetReceipt")
    /\ UNCHANGED <<inputVars, resolveVars, selectVars, root, preroot, tracing,
                   accessed, retain, idx, outVars, circSupply, basefee, rec>>

(* ---------------------------- VerifyReceipt ---------------------------- *)
\* conformance.AssertMsgResult: the reporter fails when a field differs
Failed(expected, actual) ==
    \/ expected.ExitCode # actual.ExitCode
    \/ expected.GasUsed # actual.GasUsed
    \/ expected.Return # actual.Return

\* a faulty check: a failed reporter is ignored
CheckReceiptNever(r) == Goto("MsgSerialize")

\* a faulty check: a nil receipt is treated as a mismatch
CheckReceiptNilAborts(r) ==
    IF r = <<>> \/ Failed(r[1], applyret[1])
    THEN Abort("vector generation aborted")
    ELSE Goto("MsgSerialize")

\* the branch on rec: nil skips the comparison, else a failed reporter aborts
CheckReceipt(r) ==
    IF r # <<>> /\ Failed(r[1], applyret[1])
    THEN Abort("vector generation aborted")
    ELSE Goto("MsgSerialize")

\* fapi.StateGetReceipt(ctx, mcid, execTs.Key()) and the sanity check
StateGetReceipt ==
    /\ pc = "StateGetReceipt"
    /\ Call("StateGetReceipt")
    /\ \/ Abort("failed to find receipt on chain") /\ UNCHANGED rec
       \/ \E r \in {<<>>} \cup {<<x>> : x \in Receipts} :
             rec' = r /\ CheckReceipt(r)
    /\ UNCHANGED <<inputVars, resolveVars, selectVars, execVars, outVars, circSupply,
                   basefee>>

(* ------------------------- Assemble and Serialize ---------------------- *)
\* msg.Serialize()
Bytes(m) == <<m.From, m.Nonce>>

SerializeMsg ==
    /\ pc = "MsgSerialize"
    /\ \/ Abort("serialize error")
       \/ Goto("WriteCAR")
    /\ UNCHANGED <<inputVars, resolveVars, selectVars, execVars, outVars, circSupply,
                   basefee, rec, calls>>

\* carWriter(gw): g.WriteCARIncluding(w, accessed, preroot, postroot) or
\* g.WriteCAR(w, preroot, postroot)
CarOf(w) ==
    [included |-> IF w = "WriteCARIncluding" THEN accessed ELSE {},
     roots |-> <<preroot, postroot>>]

\* the store entry that holds the node of a state root
RootEntry(r) == [root |-> r, actor |-> 0]

\* every entry the engine reads when it executes m on pre
Reads(pre, m) == {RootEntry(pre)} \cup AccessedBy(pre, m)

\* the engine on a given store: it fails when an entry it reads is missing
ExecuteOn(store, pre, m) ==
    IF Reads(pre, m) \subseteq store
    THEN [ok |-> TRUE, ret |-> <<ExecRet(pre, m)>>, post |-> <<ExecPostroot(pre, m)>>]
    ELSE [ok |-> FALSE, ret |-> <<>>, post |-> <<>>]

\* the entries of an archive: its include set and the node of each of its roots
ArchiveEntries(car) ==
    car.included \cup {RootEntry(car.roots[i]) : i \in 1..Len(car.roots)}

\* a faulty step: the CAR is streamed to the destination instead of the buffer
WriteCARToOutput ==
    /\ pc = "WriteCAR"
    /\ Call(carWriter)
    /\ \/ /\ Abort("car writer error")
          /\ IF opts.file = ""
             THEN stdout' = "partial" /\ UNCHANGED fs
             ELSE fs' = [fs EXCEPT !.file = "partial"] /\ UNCHANGED stdout
          /\ UNCHANGED out
       \/ out' = <<CarOf(carWriter)>> /\ Goto("GzFlush") /\ UNCHANGED <<fs, stdout>>
    /\ UNCHANGED <<inputVars, resolveVars, selectVars, execVars, vector,
                   circSupply, basefee, rec>>

WriteCAR ==
    /\ pc = "WriteCAR"
    /\ Call(carWriter)
    /\ \/ Abort("car writer error") /\ UNCHANGED out
       \/ out' = <<CarOf(carWriter)>> /\ Goto("GzFlush")
    /\ UNCHANGED <<inputVars, resolveVars, selectVars, execVars, fs, stdout, vector,
                   circSupply, basefee, rec>>

\* gw.Flush()
GzFlush ==
    /\ pc = "GzFlush"
    /\ \/ Abort("gzip flush error")
       \/ Goto("GzClose")
    /\ UNCHANGED <<inputVars, resolveVars, selectVars, execVars, outVars, circSupply,
                   basefee, rec, calls>>

\* gw.Close()
GzClose ==
    /\ pc = "GzClose"
    /\ \/ Abort("gzip close error")
       \/ Goto("Version")
    /\ UNCHANGED <<inputVars, resolveVars, selectVars, execVars, outVars, circSupply,
                   basefee, rec, calls>>

\* a faulty step: a failed call is issued again instead of ending the run
VersionRetried ==
    /\ pc = "Version"
    /\ Call("Version")
    /\ \/ Goto("Version")
       \/ Goto("StateNetworkName")
    /\ UNCHANGED <<inputVars, resolveVars, selectVars, execVars, outVars, circSupply,
                   basefee, rec>>

\* fapi.Version(ctx)
Version ==
    /\ pc = "Version"
    /\ Call("Version")
    /\ \/ Abort("version error")
       \/ Goto("StateNetworkName")
    /\ UNCHANGED <<inputVars, resolveVars, selectVars, execVars, outVars, circSupply,
                   basefee, rec>>

\* a faulty literal: the root the replay ended on is recorded as the preroot
TestVectorReplayRoot ==
    [Gen |-> [message |-> CidOf(msg), inclusion_tipset |-> incTs,
              execution_tipset |-> execTs],
     CAR |-> out,
     Pre |-> [Epoch |-> Height(execTs), CircSupply |-> circSupply,
              BaseFee |-> basefee, RootCID |-> root],
     ApplyMessages |-> <<Bytes(msg)>>,
     Post |-> [RootCID |-> postroot,
               Receipts |-> <<[ExitCode |-> applyret[1].ExitCode,
                               Return |-> applyret[1].Return,
                               GasUsed |-> applyret[1].GasUsed]>>]]

\* the schema.TestVector literal
TestVector ==
    [Gen |-> [message |-> CidOf(msg), inclusion_tipset |-> incTs,
              execution_tipset |-> execTs],
     CAR |-> out,
     Pre |-> [Epoch |-> Height(execTs), CircSupply |-> circSupply,
              BaseFee |-> basefee, RootCID |-> preroot],
     ApplyMessages |-> <<Bytes(msg)>>,
     Post |-> [RootCID |-> postroot,
               Receipts |-> <<[ExitCode |-> applyret[1].ExitCode,
                               Return |-> applyret[1].Return,
                               GasUsed |-> applyret[1].GasUsed]>>]]

\* fapi.StateNetworkName(ctx), then the vector is assembled
StateNetworkName ==
    /\ pc = "StateNetworkName"
    /\ Call("StateNetworkName")
    /\ \/ Abort("network name error") /\ UNCHANGED vector
       \/ /\ vector' = <<TestVector>>
          /\ Goto(IF opts.file = "" THEN "Encode" ELSE "MkdirAll")
    /\ UNCHANGED <<inputVars, resolveVars, selectVars, execVars, fs, stdout, out,
                   circSupply, basefee, rec>>

\* os.MkdirAll(dir, 0755)
MkdirAll ==
    /\ pc = "MkdirAll"
    /\ Call("MkdirAll")
    /\ \/ Abort("unable to create directory") /\ UNCHANGED fs
       \/ fs' = [fs EXCEPT !.dir = TRUE] /\ Goto("Create")
    /\ UNCHANGED <<inputVars, resolveVars, selectVars, execVars, stdout, out, vector,
                   circSupply, basefee, rec>>

\* os.Create(file): creates the file or truncates the one that is there
Create ==
    /\ pc = "Create"
    /\ Call("Create")
    /\ \/ Abort("create error") /\ UNCHANGED fs
       \/ fs' = [fs EXCEPT !.file = "empty"] /\ Goto("Encode")
    /\ UNCHANGED <<inputVars, resolveVars, selectVars, execVars, stdout, out, vector,
                   circSupply, basefee, rec>>

\* enc.Encode(&vector) on the file or on os.Stdout: the whole document, or an
\* error with nothing or only a part of it written
Encode ==
    /\ pc = "Encode"
    /\ Call("Encode")
    /\ \E written \in {"", "partial", "vector"} :
          /\ IF written = "vector" THEN Goto("Done") ELSE Abort("encode error")
          /\ IF opts.file = ""
             THEN stdout' = written /\ UNCHANGED fs
             ELSE /\ fs' = [fs EXCEPT !.file = IF written = "" THEN "empty" ELSE written]
                  /\ UNCHANGED stdout
    /\ UNCHANGED <<inputVars, resolveVars, selectVars, execVars, out, vector,
                   circSupply, basefee, rec>>

Next ==
    \/ DecodeCid
    \/ ChainGetMessage
    \/ StateSearchMsg
    \/ FetchThisTipset
    \/ FetchPrevTipset
    \/ DecodeBlock
    \/ ChainGetBlock
    \/ GetExecTs
    \/ GetIncTs
    \/ StateCirculatingSupply
    \/ ChainGetParentMessages
    \/ FindMsgAndPrecursors
    \/ NewDriver
    \/ ExecutePrecursor
    \/ SelectRetention
    \/ ExecuteTraced
    \/ GetAccessedActors
    \/ AppendActors
    \/ GetMaskedStateTree
    \/ ExecuteMasked
    \/ StateGetReceipt
    \/ SerializeMsg
    \/ WriteCAR
    \/ GzFlush
    \/ GzClose
    \/ Version
    \/ StateNetworkName
    \/ MkdirAll
    \/ Create
    \/ Encode

Spec == Init /\ [][Next]_vars

(* --------------- the selector on every list, mode and target ----------- *)
InitSel ==
    /\ pc = "findMsgAndPrecursors"
    /\ opts \in {o \in OptsSet : o.cid = "mcid" /\ o.block = "" /\ o.file = ""
                                 /\ o.retain = "accessed-cids"}
    /\ chain = {0}
    /\ fs = [dir |-> FALSE, file |-> "absent"]
    /\ msg \in Messages
    /\ msgs \in MsgLists
    /\ InitLocals

SpecSel == InitSel /\ [][FindMsgAndPrecursors]_vars

(* ======================================================================= *)
(*                               properties                                *)
(* ======================================================================= *)
\* where the run is, or where it ended
Where == IF pc \in Terminal THEN failedAt ELSE pc

\* the position of the first entry of the list whose Cid is the target's, 0 if none
FirstMatch(list, target) ==
    IF \E i \in 1..Len(list) : list[i].Cid = CidOf(target)
    THEN CHOOSE i \in 1..Len(list) :
            /\ list[i].Cid = CidOf(target)
            /\ \A j \in 1..(i - 1) : list[j].Cid # CidOf(target)
    ELSE 0

\* the selector has returned
SelectorReturned ==
    /\ pc # "findMsgAndPrecursors"
    /\ Where \in {"findMsgAndPrecursors", "NewDriver"}

MessagesOf(q) == [i \in 1..Len(q) |-> q[i].Message]
SameSender(list, target, k) ==
    LET FromTarget(e) == e.Message.From = target.From
    IN MessagesOf(SelectSeq(SubSeq(list, 1, k - 1), FromTarget))

\* C1: when the list holds the target, first at position k, mode 'sender'
\* returns the messages before k from the target's sender, in order, then the
\* target; mode 'all' returns the messages at positions 1..k; found is true.
C1_SelectorCorrect ==
    LET k == FirstMatch(msgs, msg)
    IN (SelectorReturned /\ k > 0) =>
          /\ (opts.precursor = PrecursorSelectSender =>
                 found /\ related = SameSender(msgs, msg, k) \o <<msg>>)
          /\ (opts.precursor = PrecursorSelectAll =>
                 found /\ related = MessagesOf(SubSeq(msgs, 1, k)))

\* a 'sender' run that dropped a message of another sender and kept one precursor
C1_Witness ==
    /\ SelectorReturned
    /\ opts.precursor = PrecursorSelectSender
    /\ found
    /\ Len(related) = 2
    /\ FirstMatch(msgs, msg) = 3
    /\ Len(msgs) = 3

\* C2: whenever the selector returns found = true, whatever the mode string,
\* the returned sequence is not empty and its last element is the target.
C2_FoundEndsWithTarget ==
    (SelectorReturned /\ found) =>
        /\ Len(related) > 0
        /\ related[Len(related)] = msg

\* C8: when no entry of the list has the target's Cid, found is false and the
\* accumulated sequence is no longer than the list, in every mode.
C8_NotFound ==
    (SelectorReturned /\ FirstMatch(msgs, msg) = 0) =>
        /\ ~found
        /\ Len(related) <= Len(msgs)

\* a list without the target from which some entries were accumulated and some not
C8_Witness ==
    /\ SelectorReturned
    /\ FirstMatch(msgs, msg) = 0
    /\ ~found
    /\ Len(related) > 0
    /\ Len(related) < Len(msgs)

\* the positions inside resolveFromChain
ResolvePcs ==
    {"ChainGetMessage", "StateSearchMsg", "ChainGetTipSet", "ChainGetTipSetParents",
     "DecodeBlock", "ChainGetBlock", "GetExecTs", "GetIncTs"}

\* resolveFromChain has returned its tipsets without error
Resolved == pc = "StateCirculatingSupply"

\* C7: after every successful resolution, by either path and on every chain,
\* the inclusion tipset is the parent of the execution tipset.
C7_InclusionIsParentOfExecution ==
    Resolved => incTs = Parents(chain, execTs)

\* C10: whenever the message cannot be located, resolveFromChain returns an
\* error: the run ends Aborted with the resolution error, it does not crash,
\* and nothing was asked of the chain about the tipsets.
C10_ResolutionFailsWithError ==
    (pc \in Terminal /\ failedAt \in ResolvePcs) =>
        /\ pc = "Aborted"
        /\ err = ErrResolve
        /\ \A i \in 1..Len(calls) : calls[i] # "StateCirculatingSupply"

\* the positions of the Serialize stage: the destination is created and written
OutputPcs == {"MkdirAll", "Create", "Encode"}

Called(name) == \E i \in 1..Len(calls) : calls[i] = name

\* nothing was created or written at the destination
DestinationUntouched ==
    /\ fs = fsBefore
    /\ stdout = ""
    /\ ~Called("MkdirAll") /\ ~Called("Create") /\ ~Called("Encode")

\* the chain returned a receipt and the local result differs from it in a field
ReceiptMismatch ==
    /\ rec # <<>>
    /\ applyret # <<>>
    /\ \/ rec[1].ExitCode # applyret[1].ExitCode
       \/ rec[1].Return # applyret[1].Return
       \/ rec[1].GasUsed # applyret[1].GasUsed

\* C3: a run whose local result differs from the chain's receipt in any field
\* aborts at the receipt check: the CAR is not encoded, no vector is assembled,
\* the destination is neither created nor written, the run never reaches Done.
C3_MismatchAborts ==
    ReceiptMismatch =>
        /\ pc = "Aborted"
        /\ failedAt = "StateGetReceipt"
        /\ err = "vector generation aborted"
        /\ out = <<>>
        /\ vector = <<>>
        /\ ~Called("WriteCAR") /\ ~Called("WriteCARIncluding")
        /\ DestinationUntouched

\* a run to a file whose result differs from the receipt in gas used alone
C3_Witness ==
    /\ ReceiptMismatch
    /\ pc = "Aborted"
    /\ rec[1].ExitCode = applyret[1].ExitCode
    /\ rec[1].Return = applyret[1].Return
    /\ opts.file # ""
    /\ Len(precursors) > 0

\* C4: with a nil receipt and no error from the chain the run does not stop at
\* the receipt check (the only abort there with no receipt is the lookup's own
\* error), and the receipt of the vector is the local execution's result.
C4_NilReceiptProceeds ==
    /\ (pc = "Aborted" /\ failedAt = "StateGetReceipt" /\ rec = <<>>) =>
          err = "failed to find receipt on chain"
    /\ (vector # <<>> /\ rec = <<>>) =>
          vector[1].Post.Receipts = <<ExecRet(preroot, msg)>>

\* a run that got no receipt and wrote its vector
C4_Witness ==
    /\ pc = "Done"
    /\ Called("StateGetReceipt")
    /\ rec = <<>>
    /\ vector # <<>>
    /\ (fs.file = "vector" \/ stdout = "vector")

\* C5: a run that fails before the Serialize stage, by an error or a crash,
\* leaves the destination as it was: no directory or file is created, the file
\* is not truncated, nothing is written to standard output.
C5_FailureBeforeSerializeLeavesOutput ==
    (pc \in {"Aborted", "Panicked"} /\ failedAt \notin OutputPcs) =>
        DestinationUntouched

\* the last step before the Serialize stage fails, with an older file in place
C5_Witness ==
    /\ pc = "Aborted"
    /\ failedAt = "StateNetworkName"
    /\ opts.file # ""
    /\ fsBefore.file = "old"
    /\ fs.file = "old"

\* C6: a run that fails in the Serialize stage leaves no partial document: a
\* file that was there before the run is not truncated or half-written, and no
\* empty or partial file is left behind.
C6_FailedSerializeLeavesNoPartial ==
    (pc = "Aborted" /\ failedAt \in OutputPcs) =>
        /\ fs.file \notin {"empty", "partial"}
        /\ (fsBefore.file = "old" => fs.file = "old")

\* C9: when the selector reports found = false the run aborts there: the
\* engine was not invoked on any message, the receipt was not fetched, nothing
\* was produced.
C9_NotFoundAborts ==
    (SelectorReturned /\ ~found) =>
        /\ pc = "Aborted"
        /\ err = "message not found"
        /\ executed = <<>>
        /\ ~Called("ExecuteMessage")
        /\ ~Called("StateGetReceipt")
        /\ out = <<>>
        /\ vector = <<>>
        /\ DestinationUntouched

\* a block hint resolved tipsets whose list does not hold the message
C9_Witness ==
    /\ pc = "Aborted"
    /\ failedAt = "findMsgAndPrecursors"
    /\ opts.block = "bcid"
    /\ ~found
    /\ Len(related) > 0
    /\ msgs # <<>>

(* ------------------- C11: an omitted actor and the receipt ------------- *)
\* the receipt the chain recorded for the target: its execution on the whole tree
ChainRecorded == ExecRet(root, msg)

\* the target was executed on a masked tree that omits an actor it accesses, and
\* the receipt of that execution is not the one the chain recorded
MaskedOutRun ==
    /\ opts.retain = "accessed-actors"
    /\ applyret # <<>>
    /\ MaskedOut(preroot, msg.From)
    /\ applyret[1] # ChainRecorded

\* C11 as stated: a run that masked out an accessed actor is stopped at the
\* receipt check whatever the lookup answers (no receipt, or the recorded one);
\* it never completes and builds no vector
C11_MaskedOutAlwaysStopped ==
    (MaskedOutRun /\ Called("StateGetReceipt")
        /\ (rec = <<>> \/ rec[1] = ChainRecorded))
    => /\ pc = "Aborted"
       /\ failedAt = "StateGetReceipt"
       /\ vector = <<>>

\* C11 amended: a run that masked out an accessed actor is stopped at the
\* receipt check whenever the lookup returns the recorded receipt: it aborts
\* there with "vector generation aborted", builds no vector and writes nothing
C11_MaskedOutStoppedByReceipt ==
    (MaskedOutRun /\ rec # <<>> /\ rec[1] = ChainRecorded)
    => /\ pc = "Aborted"
       /\ failedAt = "StateGetReceipt"
       /\ err = "vector generation aborted"
       /\ vector = <<>>
       /\ DestinationUntouched

C11_Witness ==
    /\ MaskedOutRun
    /\ rec # <<>> /\ rec[1] = ChainRecorded
    /\ pc = "Aborted"
    /\ Len(precursors) > 0

\* the run C11 overlooks: no receipt is returned and the masked-out run completes
C11_NilReceiptDone == MaskedOutRun /\ rec = <<>> /\ pc = "Done"

(* ------------------- C12: the access-traced round trip ----------------- *)
\* C12: under access-traced retention the archive of an assembled vector holds
\* exactly the traced set, the preroot and the postroot, and the target
\* executed again on a store that holds only the archive gives the vector's
\* postroot and receipt
C12_TracedArchiveReplays ==
    (opts.retain = "accessed-cids" /\ vector # <<>>)
    => LET v == vector[1]
           car == v.CAR[1]
           replay == ExecuteOn(ArchiveEntries(car), v.Pre.RootCID, msg)
       IN /\ car.included = AccessedBy(v.Pre.RootCID, msg)
          /\ ArchiveEntries(car) = AccessedBy(v.Pre.RootCID, msg)
                \cup {RootEntry(v.Pre.RootCID), RootEntry(v.Post.RootCID)}
          /\ replay.ok
          /\ replay.post = <<v.Post.RootCID>>
          /\ replay.ret = <<v.Post.Receipts[1]>>

C12_Witness ==
    /\ opts.retain = "accessed-cids"
    /\ pc = "Done"
    /\ Len(precursors) > 0
    /\ vector[1].CAR[1].included # {}

(* ------------------------ C14: root threading -------------------------- *)
\* the engine invocations made so far on precursors
PrecursorRuns == Min(Len(executed), Len(precursors))

\* the root the replay of the precursors ends on: the postroot of the last
\* precursor, or the parent state of the inclusion tipset when there is none
ReplayedRoot ==
    IF precursors = <<>>
    THEN ParentState(incTs)
    ELSE ExecPostroot(executed[Len(precursors)].Preroot,
                      executed[Len(precursors)].Message)

\* C14: the first precursor runs on the parent state root of the inclusion
\* tipset, every later precursor on the postroot of the one before it, and under
\* access-traced retention the target runs on the root the replay ended on,
\* which is also the preroot of the vector
C14_RootThreading ==
    /\ PrecursorRuns > 0 => executed[1].Preroot = ParentState(incTs)
    /\ \A i \in 2..PrecursorRuns :
          executed[i].Preroot
             = ExecPostroot(executed[i - 1].Preroot, executed[i - 1].Message)
    /\ (opts.retain = "accessed-cids" /\ Len(executed) = Len(precursors) + 1)
       => /\ executed[Len(executed)].Message = msg
          /\ executed[Len(executed)].Preroot = ReplayedRoot
          /\ preroot = ReplayedRoot
    /\ (opts.retain = "accessed-cids" /\ vector # <<>>)
       => vector[1].Pre.RootCID = ReplayedRoot

C14_Witness ==
    /\ opts.retain = "accessed-cids"
    /\ pc = "Done"
    /\ Len(precursors) >= 2
    /\ vector[1].Pre.RootCID # ParentState(incTs)

(* --------------------- C15: the engine invocations --------------------- *)
\* the message of the i-th invocation a complete run makes
Scheduled(i) == IF i <= Len(precursors) THEN precursors[i] ELSE msg

\* C15: the engine is invoked on the precursors in canonical order and then on
\* the target: the target is invoked only after every precursor has executed,
\* no message is executed twice, and a run that completes with n precursors has
\* made exactly n + 1 invocations, the last of them on the target
C15_EngineInvocations ==
    /\ Len(executed) <= Len(precursors) + 1
    /\ \A i \in 1..Len(executed) : executed[i].Message = Scheduled(i)
    /\ \A i, j \in 1..Len(executed) :
          i # j => executed[i].Message # executed[j].Message
    /\ Len(executed) = Len(precursors) + 1 => idx = Len(precursors)
    /\ pc = "Done"
       => /\ Len(executed) = Len(precursors) + 1
          /\ executed[Len(executed)].Message = msg

C15_Witness ==
    /\ pc = "Done"
    /\ Len(precursors) >= 2
    /\ Len(executed) = Len(precursors) + 1
    /\ opts.retain = "accessed-actors"

(* ---------------------- C16: the order of the stages ------------------- *)
\* the positions of doExtract in program order
PcOrder ==
    <<"Decode", "ChainGetMessage", "StateSearchMsg", "ChainGetTipSet",
      "ChainGetTipSetParents", "DecodeBlock", "ChainGetBlock", "GetExecTs",
      "GetIncTs", "StateCirculatingSupply", "ChainGetParentMessages",
      "findMsgAndPrecursors", "NewDriver", "ReplayPrecursors", "ExecuteTraced",
      "GetAccessedActors", "AppendActors", "GetMaskedStateTree", "ExecuteMasked",
      "StateGetReceipt", "MsgSerialize", "WriteCAR", "GzFlush", "GzClose",
      "Version", "StateNetworkName", "MkdirAll", "Create", "Encode", "Done">>

Rank(p) == CHOOSE i \in 1..Len(PcOrder) : PcOrder[i] = p

\* resolve, select, replay, execute target, verify receipt, assemble, serialize
Stages ==
    <<{"Decode", "StateCirculatingSupply"} \cup ResolvePcs,
      {"ChainGetParentMessages", "findMsgAndPrecursors"},
      {"NewDriver", "ReplayPrecursors"},
      {"ExecuteTraced", "GetAccessedActors", "AppendActors", "GetMaskedStateTree",
       "ExecuteMasked"},
      {"StateGetReceipt"},
      {"MsgSerialize", "WriteCAR", "GzFlush", "GzClose", "Version",
       "StateNetworkName"},
      OutputPcs \cup {"Done"}>>

StageOf(p) == CHOOSE s \in 1..Len(Stages) : p \in Stages[s]

\* one step of a run, seen from the stage order
OrderedStep ==
    /\ pc \notin Terminal
    /\ Len(calls') <= Len(calls) + 1
    /\ SubSeq(calls', 1, Len(calls)) = calls
    /\ IF pc' \in {"Aborted", "Panicked"}
       THEN failedAt' = pc /\ err' # ""
       ELSE /\ StageOf(pc') >= StageOf(pc)
            /\ \/ Rank(pc') > Rank(pc)
               \/ pc' = pc /\ pc = "ReplayPrecursors" /\ idx' = idx + 1

\* C16: the stages are entered in the order resolve, select, replay, execute
\* target, verify receipt, assemble, serialize and none is entered again; a step
\* that fails ends the run there with an error, and after the end of a run no
\* step is taken: no later stage, no further external call, no retry
C16_StagesInOrder == [][OrderedStep]_vars

\* a run that failed late, after external calls in every earlier stage
C16_Witness ==
    /\ pc = "Aborted"
    /\ failedAt = "Version"
    /\ err = "version error"
    /\ Len(precursors) > 0
    /\ calls[Len(calls)] = "Version"

(* ------------------------ C17: the tracing flag ------------------------ *)
\* C17: under access-traced retention tracing is on only for the span of the
\* target's execution: it is off while precursors execute and off again in
\* every state in which the run has ended, completed or aborted
C17_TracingOnlyDuringTarget ==
    /\ tracing => opts.retain = "accessed-cids"
    /\ tracing => Where = "ExecuteTraced"
    /\ pc \in Terminal => ~tracing

\* the run the code leaves tracing on in: the target's execution failed
C17_TracingLeftOn ==
    /\ pc = "Aborted"
    /\ failedAt = "ExecuteTraced"
    /\ err = "failed to execute message"
    /\ tracing

(* ------------------------ C18: the masked tree ------------------------- *)
ProtocolActors == {RewardAddress, BurntFundsActorAddr, InitAddress}

\* the position the run is at, or ended at
At == IF pc = "Done" THEN pc ELSE Where

\* the retain list is complete: the protocol actors have been appended
RetainComplete == Rank(At) > Rank("AppendActors")

\* the state part of C18, under actor-masked retention
MaskedTreeUsed ==
    opts.retain = "accessed-actors"
    => /\ RetainComplete => ProtocolActors \subseteq Range(retain)
       /\ preroot # NoRoot
          => /\ RetainComplete
             /\ preroot = [root EXCEPT !.mask = <<Range(retain)>>]
             /\ preroot # root
       /\ Len(executed) = Len(precursors) + 1
          => /\ executed[Len(executed)].Message = msg
             /\ executed[Len(executed)].Preroot = preroot
             /\ preroot # NoRoot
       /\ vector # <<>> => vector[1].Pre.RootCID = preroot /\ preroot # NoRoot

\* the step part of C18: the append keeps every actor the computation returned
\* and adds the protocol actors; afterwards the list is not changed
RetainKept ==
    opts.retain = "accessed-actors"
    => /\ pc = "AppendActors"
          => /\ Range(retain) \subseteq Range(retain')
             /\ Range(retain') = Range(retain) \cup ProtocolActors
       /\ pc \notin {"GetAccessedActors", "AppendActors"} => retain' = retain

\* C18: under actor-masked retention the retain list given to the masking holds
\* reward, burnt funds and init plus every actor the accessed-actor computation
\* returned (also when it returned none); the target is executed on the masked
\* root, never on the unmasked one, and the masked root is the vector's preroot
C18_MaskedRetention == []MaskedTreeUsed /\ [][RetainKept]_vars

C18_Witness ==
    /\ opts.retain = "accessed-actors"
    /\ pc = "Done"
    /\ msg.From \in Range(retain)
    /\ vector[1].Pre.RootCID.mask = <<ProtocolActors \cup {msg.From}>>

\* the same with an empty answer of the accessed-actor computation
C18_WitnessEmpty ==
    /\ opts.retain = "accessed-actors"
    /\ pc = "Done"
    /\ vector[1].Pre.RootCID.mask = <<ProtocolActors>>

(* --------------------- C19: retention that cannot run ------------------ *)
RetentionErrors ==
    {"unknown state retention option", ErrNoTracing,
     "failed to calculate accessed actors", "masked state tree error"}

\* the run ended because the strategy is unsupported or the masking failed
RetentionFailed == pc = "Aborted" /\ err \in RetentionErrors

\* C19: with a strategy that is neither 'accessed-cids' nor 'accessed-actors'
\* the run never gets past the replay of the precursors; and a run that ends
\* because the strategy is unknown, the store cannot trace, or the masking
\* computation failed, has not executed the target, has not started tracing,
\* has not asked the chain for the receipt and has produced no output
C19_RetentionFailureAborts ==
    /\ opts.retain \notin {"accessed-cids", "accessed-actors"}
       => /\ Rank(At) <= Rank("ReplayPrecursors")
          /\ pc # "Done"
    /\ RetentionFailed
       => /\ failedAt \in {"ReplayPrecursors", "GetAccessedActors",
                           "GetMaskedStateTree"}
          /\ ~tracing
          /\ Len(executed) = Len(precursors)
          /\ \A i \in 1..Len(executed) : executed[i].Message # msg
          /\ applyret = <<>>
          /\ ~Called("StateGetReceipt")
          /\ out = <<>>
          /\ vector = <<>>
          /\ DestinationUntouched

C19_Witness ==
    /\ pc = "Aborted"
    /\ err = "unknown state retention option"
    /\ opts.retain = "other"
    /\ Len(precursors) > 0
    /\ Len(executed) = Len(precursors)

C19_WitnessNoTracing == RetentionFailed /\ err = ErrNoTracing

C19_WitnessMasking ==
    RetentionFailed /\ failedAt = "GetMaskedStateTree" /\ Len(precursors) > 0

(* ------------- C20: the vector against the target's invocation --------- *)
\* the engine invocation on the target, once it has been made
TargetInvocation == executed[Len(executed)]

\* C20: in every assembled vector the pre-state is what the engine was given
\* for the target (epoch of the execution tipset, circulating supply and base
\* fee, the same as for every precursor, and the preroot), the post-state is
\* what that invocation returned (postroot, and its result as the only
\* receipt), and the only apply_messages entry is the serialized target
C20_VectorMatchesInvocation ==
    vector # <<>>
    => LET v == vector[1]
           t == TargetInvocation
       IN /\ Len(executed) = Len(precursors) + 1
          /\ t.Message = msg
          /\ v.Pre.Epoch = Height(execTs) /\ v.Pre.Epoch = t.Epoch
          /\ v.Pre.CircSupply = t.CircSupply
          /\ v.Pre.BaseFee = t.BaseFee
          /\ \A i \in 1..Len(executed) :
                /\ executed[i].Epoch = t.Epoch
                /\ executed[i].CircSupply = t.CircSupply
                /\ executed[i].BaseFee = t.BaseFee
          /\ v.Pre.RootCID = t.Preroot
          /\ v.Post.RootCID = ExecPostroot(t.Preroot, t.Message)
          /\ v.Post.Receipts = <<ExecRet(t.Preroot, t.Message)>>
          /\ v.ApplyMessages = <<Bytes(msg)>>

C20_Witness ==
    /\ pc = "Done"
    /\ opts.retain = "accessed-actors"
    /\ Len(precursors) > 0
    /\ vector[1].Pre.RootCID # root
    /\ vector[1].Post.Receipts[1].ExitCode = 1

====
